---- MODULE Spec2Model ----
(***************************************************************************)
(* The Socket.io chat server of this repository: the activeUsers presence  *)
(* map, socket.io room membership, the Mongoose message store and the      *)
(* event handlers registered in io.on('connection').  The repository holds *)
(* two versions of server/server.js (src/server/server.js and              *)
(* src/unnamed/part_000); the variable build says which one runs.          *)
(*                                                                         *)
(* Strings that the code concatenates (room names, socket ids used as      *)
(* room names, private room identifiers) are sequences of tokens, so that  *)
(* template strings and join('-') are real concatenations.  An async       *)
(* handler is split where it awaits: the synchronous part up to the await, *)
(* the store executing the operation, and the continuation.                *)
(*                                                                         *)
(* Not modelled: the id and timestamp of ChatBot notices (a fresh ObjectId *)
(* and the wall clock, read by nothing), logging, the HTTP routes.         *)
(***************************************************************************)
EXTENDS Integers, Sequences, FiniteSets, TLC

\* ------------------------------------------------------------------ bounds
\* of the specification Spec: suspended handlers, messages created
MaxPending == 2
MaxMsgs == 2
\* the last tick of the clock
MaxClock == 2

\* ------------------------------------------------------------------ inputs
\* socket ids in the order JavaScript's default sort() puts them
ConnSeq == <<"c1", "c2", "c3">>
Conns == {ConnSeq[i] : i \in 1..Len(ConnSeq)}
Usernames == {"alice", "bob"}
\* client-supplied room names; a client may name a room after a socket id
RoomNames == {<<"general">>, <<"random">>, <<"c1">>}
Texts == {"hi"}
Builds == {"server.js", "part_000", "part_000/strictQuery"}

NoId == 0
NoUser == [id |-> "", username |-> "", room |-> <<>>]

\* no socket.emit in a step of the client
NoEmit == [ev |-> "", username |-> "", room |-> "", connected |-> FALSE]

\* the client before App is mounted: useState(''), useState(false), a socket
\* made with autoConnect: false
NoClient ==
  [mounted |-> FALSE, username |-> "", room |-> "", isLoggedIn |-> FALSE,
   socket |-> "disconnected", isConnected |-> FALSE, socketConnected |-> FALSE,
   loggedOut |-> FALSE, op |-> "", emit |-> NoEmit]
NoDoc == [_id |-> NoId, id |-> NoId, username |-> "", text |-> "", room |-> <<>>,
          timestamp |-> 0, readBy |-> <<>>, isPrivate |-> FALSE,
          senderId |-> "", recipientId |-> ""]

VARIABLES
  build,        \* which server/server.js runs, and Mongoose's strictQuery
  connected,    \* socket.connected, per socket
  activeUsers,  \* the Map, as its values in insertion order (value.id is the key)
  rooms,        \* socket.io adapter: the rooms each socket is in
  store,        \* the messages collection, in insertion order
  nextId,       \* ObjectIds generated so far + 1
  now,          \* the clock read by new Date()
  tasks,        \* handlers suspended at an await
  emitted,      \* what the last step emitted, in order
  last,         \* the last step: its handler, socket and local variables
  lastJoin,     \* history: the payload of each socket's latest joinRoom while it is present
  doneReads,    \* history: the <<socket, messageId, roomId>> of the messageRead handlers that returned
  process,      \* the Node process: "running", or "exit(1)" after process.exit(1) or a crash
  db,           \* the Mongoose connection: "connecting" or "connected"
  delivered,    \* history, kept when .on: the <<socket, _id>> of the stored messages a socket was sent
  client        \* one browser client: the state of App, of useSocket and of its socket

vars == <<build, connected, activeUsers, rooms, store, nextId, now, tasks, emitted, last,
          lastJoin, doneReads, process, db, delivered, client>>

\* ------------------------------------------------------------- JS Map
MapIndex(m, key) == CHOOSE i \in 1..Len(m) : m[i].id = key

MapHas(m, key) == \E i \in 1..Len(m) : m[i].id = key

\* a get that returns the first record, whatever the key
MapGetFirst(m, key) == IF Len(m) > 0 THEN m[1] ELSE NoUser

MapGet(m, key) == IF MapHas(m, key) THEN m[MapIndex(m, key)] ELSE NoUser

\* a set that never replaces
MapSetAppends(m, key, value) == Append(m, value)

MapSet(m, key, value) ==
  IF MapHas(m, key) THEN [m EXCEPT ![MapIndex(m, key)] = value] ELSE Append(m, value)

\* a delete that removes nothing
MapDeleteKeeps(m, key) == m

MapDelete(m, key) ==
  LET Keep(u) == u.id # key IN SelectSeq(m, Keep)

\* a roster that is not filtered by room
listEveryRoom(m, room) == m

\* Array.from(activeUsers.values()).filter(u => u.room === room)
listByRoom(m, room) ==
  LET InRoom(u) == u.room = room IN SelectSeq(m, InRoom)

\* ------------------------------------------------------------- socket.io
\* a socket's own room is named by its id
OwnRoom(c) == <<c>>

\* a join that enters no room
SocketJoinNothing(rm, c, room) == rm

SocketJoin(rm, c, room) == [rm EXCEPT ![c] = @ \cup {room}]

\* a leave that leaves the socket in the room
SocketLeaveStays(rm, c, room) == rm

SocketLeave(rm, c, room) == [rm EXCEPT ![c] = @ \ {room}]

\* an io.to that reaches every socket that is in some room
IoToEverySocket(rm, room) == {c \in Conns : rm[c] # {}}

\* io.to(room): every socket in the room
IoTo(rm, room) == {c \in Conns : room \in rm[c]}

\* a socket.to that does not leave out the sender
SocketToWithSender(rm, c, room) == {x \in Conns : room \in rm[x]}

\* socket.to(room): every socket in the room except the sender
SocketTo(rm, c, room) == IoTo(rm, room) \ {c}

\* an emit to every socket, as io.emit
SocketEmitToAll(conn, c) == {x \in Conns : conn[x]}

\* an emit that reaches a closed socket
SocketEmitClosed(conn, c) == {c}

\* socket.emit: the socket itself; a packet for a closed socket is dropped
SocketEmit(conn, c) == IF conn[c] THEN {c} ELSE {}

Emit(ev, to, data) == [ev |-> ev, to |-> to, data |-> data]

\* a notice that does not name the ChatBot
NoticeUnsigned(text) == [username |-> "", text |-> text]

\* the ChatBot notices, text as the tokens of the template string
Notice(text) == [username |-> "ChatBot", text |-> text]

WelcomeNotice(room, username) ==
  Notice(<<"Welcome to the ">> \o room \o <<" chat room, ", username, "!">>)

JoinedNotice(username) == Notice(<<username, " has joined the chat.">>)

LeftNotice(username) == Notice(<<username, " has left the chat.">>)

NotRecognizedNotice == Notice(<<"Error: You are not recognized. Please rejoin the chat.">>)

RecipientNotice ==
  Notice(IF build = "server.js"
         THEN <<"Error: Recipient not found or offline for private message.">>
         ELSE <<"Error: Invalid sender or recipient for private message.">>)

\* ------------------------------------------------------------- the store
\* a message marked as read by nobody
NewMessageUnread(k, username, text, room, t, sender, isPrivate, recipient) ==
  [_id |-> -k,
   id |-> IF build = "server.js" THEN k ELSE NoId,
   username |-> username, text |-> text, room |-> room, timestamp |-> t,
   readBy |-> <<>>, isPrivate |-> isPrivate,
   senderId |-> IF isPrivate THEN sender ELSE "",
   recipientId |-> recipient]

\* new Message({...}): Mongoose assigns _id; src/server/server.js's schema has an
\* id path and stores the generated id, part_000's schema has none, so the id
\* given to the constructor is not stored and id is the virtual (the _id)
NewMessage(k, username, text, room, t, sender, isPrivate, recipient) ==
  [_id |-> -k,
   id |-> IF build = "server.js" THEN k ELSE NoId,
   username |-> username, text |-> text, room |-> room, timestamp |-> t,
   readBy |-> <<sender>>, isPrivate |-> isPrivate,
   senderId |-> IF isPrivate THEN sender ELSE "",
   recipientId |-> recipient]

\* doc.toObject(): with part_000's { virtuals: true } the id is the _id
toObject(doc) ==
  IF build = "server.js" THEN doc ELSE [doc EXCEPT !.id = doc._id]

Insert(seq, i, x) == SubSeq(seq, 1, i - 1) \o <<x>> \o SubSeq(seq, i, Len(seq))

\* .sort({ timestamp: 1 }): ascending, ties in insertion order
RECURSIVE SortByTimestamp(_)
SortByTimestamp(docs) ==
  IF docs = <<>> THEN <<>>
  ELSE LET sorted == SortByTimestamp(SubSeq(docs, 1, Len(docs) - 1))
           x == docs[Len(docs)]
           pos == CHOOSE i \in 1..(Len(sorted) + 1) :
                    /\ \A j \in 1..(i - 1) : sorted[j].timestamp <= x.timestamp
                    /\ \A j \in i..Len(sorted) : sorted[j].timestamp > x.timestamp
       IN Insert(sorted, pos, x)

\* a find that returns the matching documents in their order in the store
FindUnsorted(st, room) ==
  LET Match(d) == d.room = room /\ d.isPrivate = FALSE
  IN SelectSeq(st, Match)

\* Message.find({ room, isPrivate: false }).sort({ timestamp: 1 }).lean()
Find(st, room) ==
  LET Match(d) == d.room = room /\ d.isPrivate = FALSE
  IN SortByTimestamp(SelectSeq(st, Match))

\* Message.findOne({ id: messageId, room: roomId }).  part_000's schema has no id
\* path: with strictQuery the id condition is stripped from the filter, without
\* it the filter asks for a stored field id, which no document has
FindOne(st, messageId, roomId) ==
  LET Match(d) ==
        /\ d.room = roomId
        /\ CASE build = "server.js" -> d.id = messageId
             [] build = "part_000" -> d.id # NoId /\ d.id = messageId
             [] OTHER -> TRUE
      found == SelectSeq(st, Match)
  IN IF found = <<>> THEN NoDoc ELSE found[1]

\* a save that writes nothing
PushReadByNothing(st, key, x) == st

\* doc.readBy.push(x); doc.save(): Mongoose sends { $push: { readBy: x } } for
\* the document with the _id
PushReadBy(st, key, x) ==
  [i \in 1..Len(st) |->
     IF st[i]._id = key THEN [st[i] EXCEPT !.readBy = Append(@, x)] ELSE st[i]]

\* the schema's required: true on username, text and room: a missing value and
\* an empty string both fail the validation that save() runs first
Valid(doc) ==
  /\ doc.username \notin {"", "undefined"}
  /\ doc.text \notin {"", "undefined"}
  /\ doc.room \notin {<<>>, <<"undefined">>}

\* [a, b].sort(): by the order of the strings
Sort2(a, b) ==
  LET Rank(c) == CHOOSE i \in 1..Len(ConnSeq) : ConnSeq[i] = c
  IN IF Rank(a) <= Rank(b) THEN <<a, b>> ELSE <<b, a>>

\* the room of a private message
privateRoomIdentifier(senderId, recipientId) ==
  IF build = "server.js"
  THEN <<"private_", senderId, "_", recipientId>>
  ELSE LET s == Sort2(senderId, recipientId) IN <<s[1], "-", s[2]>>

\* ------------------------------------------------------------- handlers
\* the history of deliveries: not kept, or kept from the start
NotTracked ==
  [on |-> FALSE, order |-> FALSE, rosters |-> FALSE, set |-> {}, live |-> {},
   roster |-> <<>>, since |-> {}]

Tracked == [NotTracked EXCEPT !.on = TRUE]

\* the history of the live deliveries only
TrackedLive == [NotTracked EXCEPT !.order = TRUE]

\* the last roster delivered to each socket, and the sockets whose room has had
\* a join, a leave or a disconnect of another socket since their own join finished
TrackedRoster == [NotTracked EXCEPT !.rosters = TRUE, !.roster = [c \in Conns |-> <<>>]]

\* the stored messages that an emission carries: the document of a message
\* event, the documents of a roomMessages batch
Carried(e) ==
  CASE e.ev = "roomMessages" -> {e.data[k]._id : k \in 1..Len(e.data)}
    [] e.ev = "message" /\ e.data.username # "ChatBot" -> {e.data._id}
    [] e.ev = "message" /\ "_id" \in DOMAIN e.data -> {e.data._id}
    [] OTHER -> {}

Deliveries(em) ==
  UNION {{<<x, id>> : x \in em[i].to, id \in Carried(em[i])} : i \in 1..Len(em)}

\* the emissions that are message events
Live(em) ==
  LET IsMessage(e) == e.ev = "message"
  IN SelectSeq(em, IsMessage)

\* the roster a socket holds after the emissions: the payload of the last
\* roomUsers event that reaches it, or the one it held
LastRoster(held, em, x) ==
  LET ForX(e) == e.ev = "roomUsers" /\ x \in e.to
      got == SelectSeq(em, ForX)
  IN IF got = <<>> THEN held ELSE got[Len(got)].data

\* whether the room of socket x has had a join, a leave or a disconnect of
\* another socket since the join of x finished, after the step stp that leaves
\* the presence table users
Since(held, x, stp, users) ==
  LET y == stp.conn
      op == stp.op
      r == MapGet(users, x).room
  IN CASE ~MapHas(users, x) -> FALSE
       [] y = x /\ op = "joinRoom" -> FALSE
       [] y = x /\ op = "joinRoom.resume" /\ stp.user.room = r -> FALSE
       [] y # x /\ op = "joinRoom" /\ MapGet(users, y).room = r -> TRUE
       [] y # x /\ op \in {"joinRoom", "leaveRoom", "disconnect"}
                /\ stp.user # NoUser /\ stp.user.room = r -> TRUE
       [] OTHER -> held

Track(d, em, stp, users) ==
  [d EXCEPT !.set = IF d.on THEN @ \cup Deliveries(em) ELSE @,
            !.live = IF d.order THEN @ \cup Deliveries(Live(em)) ELSE @,
            !.roster = IF d.rosters
                       THEN [x \in Conns |-> LastRoster(d.roster[x], em, x)]
                       ELSE @,
            !.since = IF d.rosters THEN {x \in Conns : Since(x \in d.since, x, stp, users)} ELSE @]

NoTask == [op |-> "", phase |-> "", conn |-> "", user |-> NoUser, doc |-> NoDoc,
           messages |-> <<>>, text |-> "", messageId |-> NoId, roomId |-> <<>>,
           recipientId |-> ""]

Task(op, phase, c, user) ==
  [NoTask EXCEPT !.op = op, !.phase = phase, !.conn = c, !.user = user]

Step(op, c, user, task) == [op |-> op, conn |-> c, user |-> user, task |-> task]

Remove(seq, i) == SubSeq(seq, 1, i - 1) \o SubSeq(seq, i + 1, Len(seq))

Range(seq) == {seq[i] : i \in 1..Len(seq)}

NoJoin == [username |-> "", room |-> <<>>]

Init ==
  /\ build \in Builds
  /\ connected = [c \in Conns |-> TRUE]
  /\ activeUsers = <<>>
  /\ rooms = [c \in Conns |-> {OwnRoom(c)}]
  /\ store = <<>>
  /\ nextId = 1
  /\ now = 1
  /\ tasks = <<>>
  /\ emitted = <<>>
  /\ last = Step("", "", NoUser, NoTask)
  /\ lastJoin = [c \in Conns |-> NoJoin]
  /\ doneReads = {}
  /\ process = "running"
  /\ db = "connected"
  /\ delivered = NotTracked
  /\ client = NoClient

\* socket.on('joinRoom'), up to the await
joinRoom(c, username, room) ==
  /\ connected[c]
  /\ LET had == MapHas(activeUsers, c)
         prevUser == MapGet(activeUsers, c)
         rooms1 == IF had THEN SocketLeave(rooms, c, prevUser.room) ELSE rooms
         NotMe(u) == u.id # c
         prevRoomUsers == SelectSeq(listByRoom(activeUsers, prevUser.room), NotMe)
         user == [id |-> c, username |-> username, room |-> room]
     IN /\ activeUsers' = MapSet(activeUsers, c, user)
        /\ rooms' = SocketJoin(rooms1, c, room)
        /\ emitted' = IF had
                      THEN <<Emit("roomUsers", IoTo(rooms1, prevUser.room), prevRoomUsers)>>
                      ELSE <<>>
        /\ tasks' = Append(tasks, Task("joinRoom", "find", c, user))
        /\ last' = Step("joinRoom", c, prevUser, NoTask)
  /\ lastJoin' = [lastJoin EXCEPT ![c] = [username |-> username, room |-> room]]
  /\ delivered' = Track(delivered, emitted', last', activeUsers')
  /\ UNCHANGED client
  /\ UNCHANGED <<process, db, build, connected, store, nextId, now, doneReads>>

\* the store answers the history query of a joinRoom
joinRoomFind(i) ==
  /\ i \in 1..Len(tasks)
  /\ db = "connected"
  /\ tasks[i].op = "joinRoom" /\ tasks[i].phase = "find"
  /\ tasks' = [tasks EXCEPT ![i].phase = "resume",
                            ![i].messages = Find(store, tasks[i].user.room)]
  /\ emitted' = <<>>
  /\ last' = Step("joinRoom.find", tasks[i].conn, tasks[i].user, tasks[i])
  /\ delivered' = Track(delivered, emitted', last', activeUsers)
  /\ UNCHANGED client
  /\ UNCHANGED <<process, db, build, connected, activeUsers, rooms, store, nextId, now, lastJoin, doneReads>>

\* socket.on('joinRoom'), after the await
joinRoomResume(i) ==
  /\ i \in 1..Len(tasks)
  /\ tasks[i].op = "joinRoom" /\ tasks[i].phase = "resume"
  /\ LET t == tasks[i]
         c == t.conn
         room == t.user.room
         username == t.user.username
         currentRoomUsers == listByRoom(activeUsers, room)
     IN /\ emitted' = << Emit("message", SocketEmit(connected, c), WelcomeNotice(room, username)),
                         Emit("message", SocketTo(rooms, c, room), JoinedNotice(username)),
                         Emit("roomUsers", IoTo(rooms, room), currentRoomUsers),
                         Emit("roomMessages", SocketEmit(connected, c), t.messages) >>
        /\ last' = Step("joinRoom.resume", c, t.user, t)
  /\ tasks' = Remove(tasks, i)
  /\ delivered' = Track(delivered, emitted', last', activeUsers)
  /\ UNCHANGED client
  /\ UNCHANGED <<process, db, build, connected, activeUsers, rooms, store, nextId, now, lastJoin, doneReads>>

\* socket.on('chatMessage'), up to the await
chatMessage(c, text) ==
  /\ connected[c]
  /\ LET user == MapGet(activeUsers, c)
     IN /\ last' = Step("chatMessage", c, user, [NoTask EXCEPT !.text = text])
        /\ IF user # NoUser
           THEN \E t \in {now, now + 1} :
                  LET message == NewMessage(nextId, user.username, text, user.room, t,
                                            user.id, FALSE, "")
                  IN /\ now' = t
                     /\ nextId' = nextId + 1
                     /\ tasks' = Append(tasks, [Task("chatMessage", "save", c, user)
                                                  EXCEPT !.doc = message, !.text = text])
                     /\ emitted' = <<>>
           ELSE /\ emitted' = <<Emit("message", SocketEmit(connected, c), NotRecognizedNotice)>>
                /\ UNCHANGED <<now, nextId, tasks>>
  /\ delivered' = Track(delivered, emitted', last', activeUsers)
  /\ UNCHANGED client
  /\ UNCHANGED <<process, db, build, connected, activeUsers, rooms, store, lastJoin, doneReads>>

\* the store executes message.save() of a chatMessage
chatMessageSave(i) ==
  /\ i \in 1..Len(tasks)
  /\ db = "connected"
  /\ tasks[i].op = "chatMessage" /\ tasks[i].phase = "save"
  /\ Valid(tasks[i].doc)
  /\ store' = Append(store, tasks[i].doc)
  /\ tasks' = [tasks EXCEPT ![i].phase = "resume"]
  /\ emitted' = <<>>
  /\ last' = Step("chatMessage.save", tasks[i].conn, tasks[i].user, tasks[i])
  /\ delivered' = Track(delivered, emitted', last', activeUsers)
  /\ UNCHANGED client
  /\ UNCHANGED <<process, db, build, connected, activeUsers, rooms, nextId, now, lastJoin, doneReads>>

\* socket.on('chatMessage'), after the await
chatMessageResume(i) ==
  /\ i \in 1..Len(tasks)
  /\ tasks[i].op = "chatMessage" /\ tasks[i].phase = "resume"
  /\ LET t == tasks[i]
     IN /\ emitted' = <<Emit("message", IoTo(rooms, t.user.room), toObject(t.doc))>>
        /\ last' = Step("chatMessage.resume", t.conn, t.user, t)
  /\ tasks' = Remove(tasks, i)
  /\ delivered' = Track(delivered, emitted', last', activeUsers)
  /\ UNCHANGED client
  /\ UNCHANGED <<process, db, build, connected, activeUsers, rooms, store, nextId, now, lastJoin, doneReads>>

\* socket.on('typing') and socket.on('stopTyping')
typing(c, ev) ==
  /\ connected[c]
  /\ LET user == MapGet(activeUsers, c)
     IN /\ last' = Step(ev, c, user, NoTask)
        /\ emitted' = IF user # NoUser
                      THEN <<Emit(ev, SocketTo(rooms, c, user.room), user.username)>>
                      ELSE <<>>
  /\ delivered' = Track(delivered, emitted', last', activeUsers)
  /\ UNCHANGED client
  /\ UNCHANGED <<process, db, build, connected, activeUsers, rooms, store, nextId, now, tasks, lastJoin, doneReads>>

\* socket.on('messageRead'), up to the first await
messageRead(c, messageId, roomId) ==
  /\ connected[c]
  /\ LET user == MapGet(activeUsers, c)
     IN /\ last' = Step("messageRead", c, user,
                        [NoTask EXCEPT !.messageId = messageId, !.roomId = roomId])
        /\ tasks' = IF user # NoUser
                    THEN Append(tasks, [Task("messageRead", "findOne", c, user)
                                          EXCEPT !.messageId = messageId, !.roomId = roomId])
                    ELSE tasks
  /\ emitted' = <<>>
  /\ delivered' = Track(delivered, emitted', last', activeUsers)
  /\ UNCHANGED client
  /\ UNCHANGED <<process, db, build, connected, activeUsers, rooms, store, nextId, now, lastJoin, doneReads>>

\* the store answers Message.findOne of a messageRead
messageReadFindOne(i) ==
  /\ i \in 1..Len(tasks)
  /\ db = "connected"
  /\ tasks[i].op = "messageRead" /\ tasks[i].phase = "findOne"
  /\ tasks' = [tasks EXCEPT ![i].phase = "found",
                            ![i].doc = FindOne(store, tasks[i].messageId, tasks[i].roomId)]
  /\ emitted' = <<>>
  /\ last' = Step("messageRead.findOne", tasks[i].conn, tasks[i].user, tasks[i])
  /\ delivered' = Track(delivered, emitted', last', activeUsers)
  /\ UNCHANGED client
  /\ UNCHANGED <<process, db, build, connected, activeUsers, rooms, store, nextId, now, lastJoin, doneReads>>

\* socket.on('messageRead'), between the two awaits
messageReadFound(i) ==
  /\ i \in 1..Len(tasks)
  /\ tasks[i].op = "messageRead" /\ tasks[i].phase = "found"
  /\ LET t == tasks[i]
         messageToUpdate == t.doc
     IN /\ tasks' = IF messageToUpdate # NoDoc /\ t.user.id \notin Range(messageToUpdate.readBy)
                    THEN [tasks EXCEPT ![i].phase = "save",
                                       ![i].doc.readBy = Append(@, t.user.id)]
                    ELSE Remove(tasks, i)
        /\ doneReads' = IF messageToUpdate # NoDoc /\ t.user.id \notin Range(messageToUpdate.readBy)
                        THEN doneReads
                        ELSE doneReads \cup {<<t.conn, t.messageId, t.roomId>>}
        /\ last' = Step("messageRead.found", t.conn, t.user, t)
  /\ emitted' = <<>>
  /\ delivered' = Track(delivered, emitted', last', activeUsers)
  /\ UNCHANGED client
  /\ UNCHANGED <<process, db, build, connected, activeUsers, rooms, store, nextId, now, lastJoin>>

\* the store executes messageToUpdate.save() of a messageRead
messageReadSave(i) ==
  /\ i \in 1..Len(tasks)
  /\ db = "connected"
  /\ tasks[i].op = "messageRead" /\ tasks[i].phase = "save"
  /\ store' = PushReadBy(store, tasks[i].doc._id, tasks[i].user.id)
  /\ tasks' = [tasks EXCEPT ![i].phase = "resume"]
  /\ emitted' = <<>>
  /\ last' = Step("messageRead.save", tasks[i].conn, tasks[i].user, tasks[i])
  /\ delivered' = Track(delivered, emitted', last', activeUsers)
  /\ UNCHANGED client
  /\ UNCHANGED <<process, db, build, connected, activeUsers, rooms, nextId, now, lastJoin, doneReads>>

\* socket.on('messageRead'), after the second await
messageReadResume(i) ==
  /\ i \in 1..Len(tasks)
  /\ tasks[i].op = "messageRead" /\ tasks[i].phase = "resume"
  /\ LET t == tasks[i]
     IN /\ emitted' = <<Emit("messageUpdated", IoTo(rooms, t.roomId), toObject(t.doc))>>
        /\ last' = Step("messageRead.resume", t.conn, t.user, t)
        /\ doneReads' = doneReads \cup {<<t.conn, t.messageId, t.roomId>>}
  /\ tasks' = Remove(tasks, i)
  /\ delivered' = Track(delivered, emitted', last', activeUsers)
  /\ UNCHANGED client
  /\ UNCHANGED <<process, db, build, connected, activeUsers, rooms, store, nextId, now, lastJoin>>

\* socket.on('privateMessage'), up to the await
privateMessage(c, recipientId, msgText) ==
  /\ connected[c]
  /\ LET sender == MapGet(activeUsers, c)
         recipient == MapGet(activeUsers, recipientId)
     IN /\ last' = Step("privateMessage", c, sender,
                        [NoTask EXCEPT !.recipientId = recipientId, !.text = msgText])
        /\ IF sender # NoUser /\ recipient # NoUser
           THEN \E t \in {now, now + 1} :
                  LET privateMsg == NewMessage(nextId, sender.username, msgText,
                                               privateRoomIdentifier(sender.id, recipient.id),
                                               t, sender.id, TRUE, recipient.id)
                  IN /\ now' = t
                     /\ nextId' = nextId + 1
                     /\ tasks' = Append(tasks, [Task("privateMessage", "save", c, sender)
                                                  EXCEPT !.doc = privateMsg, !.text = msgText,
                                                         !.recipientId = recipientId])
                     /\ emitted' = <<>>
           ELSE /\ emitted' = <<Emit("message", SocketEmit(connected, c), RecipientNotice)>>
                /\ UNCHANGED <<now, nextId, tasks>>
  /\ delivered' = Track(delivered, emitted', last', activeUsers)
  /\ UNCHANGED client
  /\ UNCHANGED <<process, db, build, connected, activeUsers, rooms, store, lastJoin, doneReads>>

\* the store executes privateMsg.save()
privateMessageSave(i) ==
  /\ i \in 1..Len(tasks)
  /\ db = "connected"
  /\ tasks[i].op = "privateMessage" /\ tasks[i].phase = "save"
  /\ Valid(tasks[i].doc)
  /\ store' = Append(store, tasks[i].doc)
  /\ tasks' = [tasks EXCEPT ![i].phase = "resume"]
  /\ emitted' = <<>>
  /\ last' = Step("privateMessage.save", tasks[i].conn, tasks[i].user, tasks[i])
  /\ delivered' = Track(delivered, emitted', last', activeUsers)
  /\ UNCHANGED client
  /\ UNCHANGED <<process, db, build, connected, activeUsers, rooms, nextId, now, lastJoin, doneReads>>

\* socket.on('privateMessage'), after the await
privateMessageResume(i) ==
  /\ i \in 1..Len(tasks)
  /\ tasks[i].op = "privateMessage" /\ tasks[i].phase = "resume"
  /\ LET t == tasks[i]
     IN /\ emitted' = << Emit("message", IoTo(rooms, OwnRoom(t.recipientId)), toObject(t.doc)),
                         Emit("message", SocketEmit(connected, t.conn), toObject(t.doc)) >>
        /\ last' = Step("privateMessage.resume", t.conn, t.user, t)
  /\ tasks' = Remove(tasks, i)
  /\ delivered' = Track(delivered, emitted', last', activeUsers)
  /\ UNCHANGED client
  /\ UNCHANGED <<process, db, build, connected, activeUsers, rooms, store, nextId, now, lastJoin, doneReads>>

\* socket.on('leaveRoom')
leaveRoom(c) ==
  /\ connected[c]
  /\ LET user == MapGet(activeUsers, c)
     IN /\ last' = Step("leaveRoom", c, user, NoTask)
        /\ IF user # NoUser
           THEN LET rooms1 == SocketLeave(rooms, c, user.room)
                    users1 == MapDelete(activeUsers, c)
                IN /\ rooms' = rooms1
                   /\ activeUsers' = users1
                   /\ emitted' = << Emit("message", SocketTo(rooms1, c, user.room),
                                         LeftNotice(user.username)),
                                    Emit("roomUsers", IoTo(rooms1, user.room),
                                         listByRoom(users1, user.room)) >>
           ELSE /\ emitted' = <<>>
                /\ UNCHANGED <<rooms, activeUsers>>
  /\ lastJoin' = [lastJoin EXCEPT ![c] = NoJoin]
  /\ delivered' = Track(delivered, emitted', last', activeUsers')
  /\ UNCHANGED client
  /\ UNCHANGED <<process, db, build, connected, store, nextId, now, tasks, doneReads>>

\* the transport closes (the socket leaves every room), then socket.on('disconnect')
disconnect(c) ==
  /\ connected[c]
  /\ connected' = [connected EXCEPT ![c] = FALSE]
  /\ rooms' = [rooms EXCEPT ![c] = {}]
  /\ LET user == MapGet(activeUsers, c)
     IN /\ last' = Step("disconnect", c, user, NoTask)
        /\ IF user # NoUser
           THEN LET users1 == MapDelete(activeUsers, c)
                    currentRoomUsers == listByRoom(users1, user.room)
                IN /\ activeUsers' = users1
                   /\ emitted' = IF Len(currentRoomUsers) > 0
                                 THEN << Emit("message", SocketTo(rooms', c, user.room),
                                              LeftNotice(user.username)),
                                         Emit("roomUsers", IoTo(rooms', user.room),
                                              currentRoomUsers) >>
                                 ELSE <<>>
           ELSE /\ emitted' = <<>>
                /\ UNCHANGED activeUsers
  /\ lastJoin' = [lastJoin EXCEPT ![c] = NoJoin]
  /\ delivered' = Track(delivered, emitted', last', activeUsers')
  /\ UNCHANGED client
  /\ UNCHANGED <<process, db, build, store, nextId, now, tasks, doneReads>>

\* ------------------------------------------------------------- failures
\* the value undefined, as the token its conversion to a string gives
Undefined == "undefined"

\* what an unhandled rejection does: part_000's unhandledRejection handler calls
\* process.exit(1); src/server/server.js registers none, so Node's default
\* applies, which ends the process or only warns, by its version
Outcomes == IF build = "server.js" THEN {"exit", "warn"} ELSE {"exit"}

\* asyncHandler(fn)(...args): Promise.resolve(fn(...args)).catch(next), next the
\* last argument of the event; without an acknowledgement callback that is the
\* payload, not a function, so the rejection is not handled
Rejected(op, c, user, task, tasks1) ==
  /\ last' = Step(op, c, user, task)
  /\ emitted' = <<>>
  /\ \E outcome \in Outcomes :
       IF outcome = "exit"
       THEN /\ process' = "exit(1)"
            /\ connected' = [x \in Conns |-> FALSE]
            /\ rooms' = [x \in Conns |-> {}]
            /\ activeUsers' = <<>>
            /\ tasks' = <<>>
            /\ lastJoin' = [x \in Conns |-> NoJoin]
       ELSE /\ tasks' = tasks1
            /\ UNCHANGED <<process, connected, rooms, activeUsers, lastJoin>>
  /\ delivered' = Track(delivered, emitted', last', activeUsers')
  /\ UNCHANGED client
  /\ UNCHANGED <<db, build, store, nextId, now, doneReads>>

\* a joinRoom, messageRead or privateMessage without payload: the destructuring
\* of the parameter throws inside the async function
missingPayload(c, ev) ==
  /\ connected[c]
  /\ Rejected("missingPayload", c, MapGet(activeUsers, c), [NoTask EXCEPT !.op = ev], tasks)

\* the store operation a handler awaits is rejected (a timeout, a write error)
storeFails(i) ==
  /\ i \in 1..Len(tasks)
  /\ tasks[i].phase \in {"find", "findOne", "save"}
  /\ Rejected("storeFails", tasks[i].conn, tasks[i].user, tasks[i], Remove(tasks, i))

\* message.save() of a document that fails the schema validation is rejected
validationFails(i) ==
  /\ i \in 1..Len(tasks)
  /\ tasks[i].op \in {"chatMessage", "privateMessage"} /\ tasks[i].phase = "save"
  /\ ~Valid(tasks[i].doc)
  /\ Rejected("validationFails", tasks[i].conn, tasks[i].user, tasks[i], Remove(tasks, i))

\* ------------------------------------------------------------- start
\* server.listen(PORT) runs when the module is loaded, after connectDB() was
\* called and not awaited: sockets connect while Mongoose is still connecting
connection(c) ==
  /\ process = "running"
  /\ ~connected[c]
  /\ rooms[c] = {}
  /\ connected' = [connected EXCEPT ![c] = TRUE]
  /\ rooms' = [rooms EXCEPT ![c] = {OwnRoom(c)}]
  /\ emitted' = <<>>
  /\ last' = Step("connection", c, NoUser, NoTask)
  /\ delivered' = Track(delivered, emitted', last', activeUsers)
  /\ UNCHANGED client
  /\ UNCHANGED <<process, db, build, activeUsers, store, nextId, now, tasks, lastJoin, doneReads>>

\* connectDB: await mongoose.connect resolves
connectDBConnected ==
  /\ process = "running"
  /\ db = "connecting"
  /\ db' = "connected"
  /\ emitted' = <<>>
  /\ last' = Step("connectDB.connected", "", NoUser, NoTask)
  /\ delivered' = Track(delivered, emitted', last', activeUsers)
  /\ UNCHANGED client
  /\ UNCHANGED <<process, build, connected, activeUsers, rooms, store, nextId, now, tasks,
                 lastJoin, doneReads>>

\* connectDB: await mongoose.connect rejects; the catch calls process.exit(1)
connectDBError ==
  /\ process = "running"
  /\ db = "connecting"
  /\ process' = "exit(1)"
  /\ connected' = [x \in Conns |-> FALSE]
  /\ rooms' = [x \in Conns |-> {}]
  /\ activeUsers' = <<>>
  /\ tasks' = <<>>
  /\ lastJoin' = [x \in Conns |-> NoJoin]
  /\ emitted' = <<>>
  /\ last' = Step("connectDB.error", "", NoUser, NoTask)
  /\ delivered' = Track(delivered, emitted', last', activeUsers')
  /\ UNCHANGED client
  /\ UNCHANGED <<db, build, store, nextId, now, doneReads>>

\* the module has been loaded: the server listens, Mongoose is connecting
InitStart ==
  /\ build \in {"server.js", "part_000"}
  /\ connected = [c \in Conns |-> FALSE]
  /\ activeUsers = <<>>
  /\ rooms = [c \in Conns |-> {}]
  /\ store = <<>>
  /\ nextId = 1
  /\ now = 1
  /\ tasks = <<>>
  /\ emitted = <<>>
  /\ last = Step("", "", NoUser, NoTask)
  /\ lastJoin = [c \in Conns |-> NoJoin]
  /\ doneReads = {}
  /\ process = "running"
  /\ db = "connecting"
  /\ delivered = NotTracked
  /\ client = NoClient

\* ------------------------------------------------------------- the client
\* the variables of the server
server == <<build, connected, activeUsers, rooms, store, nextId, now, tasks, emitted, last,
            lastJoin, doneReads, process, db, delivered>>

\* what the user types into the two inputs of the form
ClientUsernames == {"", "alice"}

ClientRooms == {"", "general"}

\* socket.connect(): nothing when connected, else the socket opens
SocketConnect(sock) == IF sock = "connected" THEN sock ELSE "connecting"

\* the effect of App: socket.connect() when the socket is not connected
mount ==
  /\ ~client.mounted
  /\ client' = [client EXCEPT !.mounted = TRUE,
                              !.socket = SocketConnect(@),
                              !.op = "mount", !.emit = NoEmit]
  /\ UNCHANGED server

\* the socket has opened: onConnect sets isConnected, which the next render shows
onConnect ==
  /\ client.socket = "connecting"
  /\ client' = [client EXCEPT !.socket = "connected", !.isConnected = TRUE,
                              !.op = "onConnect", !.emit = NoEmit]
  /\ UNCHANGED server

\* the transport has closed: onDisconnect clears isConnected, which the next
\* render shows, and the socket reconnects by itself
onDisconnect ==
  /\ client.socket = "connected"
  /\ client' = [client EXCEPT !.socket = "connecting", !.isConnected = FALSE,
                              !.op = "onDisconnect", !.emit = NoEmit]
  /\ UNCHANGED server

\* App renders after a state update made outside an event of the user: its
\* handlers now see the isConnected of the hook
render ==
  /\ client.mounted
  /\ client.socketConnected # client.isConnected
  /\ client' = [client EXCEPT !.socketConnected = client.isConnected,
                              !.op = "render", !.emit = NoEmit]
  /\ UNCHANGED server

\* onChange of the username input
setUsername(value) ==
  /\ client.mounted /\ ~client.isLoggedIn
  /\ client' = [client EXCEPT !.username = value, !.op = "setUsername", !.emit = NoEmit]
  /\ UNCHANGED server

\* onChange of the room input
setRoom(value) ==
  /\ client.mounted /\ ~client.isLoggedIn
  /\ client' = [client EXCEPT !.room = value, !.op = "setRoom", !.emit = NoEmit]
  /\ UNCHANGED server

\* useSocket.connectAndJoinRoom: socket.connect() when the socket is not
\* connected, then socket.emit('joinRoom', { username, room })
connectAndJoinRoom(cl, username, room) ==
  [cl EXCEPT !.socket = SocketConnect(@),
             !.emit = [ev |-> "joinRoom", username |-> username, room |-> room,
                       connected |-> cl.socket = "connected"]]

\* onSubmit of the form
handleJoinRoom ==
  /\ client.mounted /\ ~client.isLoggedIn
  /\ client' = IF client.username # "" /\ client.room # "" /\ client.socketConnected
                THEN [connectAndJoinRoom(client, client.username, client.room)
                        EXCEPT !.isLoggedIn = TRUE, !.loggedOut = FALSE,
                               !.op = "handleJoinRoom"]
                ELSE [client EXCEPT !.op = "handleJoinRoom", !.emit = NoEmit]
  /\ UNCHANGED server

\* useSocket.disconnect: socket.disconnect() when the socket is connected; a
\* socket closed by the client does not reconnect, and onDisconnect runs in
\* the call
hookDisconnect(cl) ==
  IF cl.socket = "connected"
  THEN [cl EXCEPT !.socket = "disconnected", !.isConnected = FALSE,
                  !.socketConnected = FALSE]
  ELSE cl

\* onLogout of ChatInterface
handleLogout ==
  /\ client.mounted /\ client.isLoggedIn
  /\ client' = [hookDisconnect(client)
                  EXCEPT !.username = "", !.room = "", !.isLoggedIn = FALSE,
                         !.loggedOut = TRUE, !.op = "handleLogout", !.emit = NoEmit]
  /\ UNCHANGED server

\* ------------------------------------------------------------- specifications
\* room for one more suspended handler among at most n
CanSuspend(n) == Len(tasks) < n

\* room for one more message among at most n, and a clock that can still advance
CanCreate(n) == nextId <= n /\ now < MaxClock

\* the store steps and continuations of the suspended handlers
Continue ==
  \E i \in 1..Len(tasks) :
    \/ joinRoomFind(i)
    \/ joinRoomResume(i)
    \/ chatMessageSave(i)
    \/ chatMessageResume(i)
    \/ messageReadFindOne(i)
    \/ messageReadFound(i)
    \/ messageReadSave(i)
    \/ messageReadResume(i)
    \/ privateMessageSave(i)
    \/ privateMessageResume(i)

\* what a client can name in a messageRead: ids and rooms of messages it was sent
ReadIds == {toObject(store[i]).id : i \in 1..Len(store)}

ReadRooms == {store[i].room : i \in 1..Len(store)}

\* every handler, every socket, every input
Next ==
  \/ \E c \in Conns, username \in Usernames, room \in RoomNames :
        CanSuspend(MaxPending) /\ joinRoom(c, username, room)
  \/ \E c \in Conns, text \in Texts :
        (MapHas(activeUsers, c) => CanSuspend(MaxPending) /\ CanCreate(MaxMsgs))
        /\ chatMessage(c, text)
  \/ \E c \in Conns, ev \in {"typing", "stopTyping"} : typing(c, ev)
  \/ \E c \in Conns : \E messageId \in ReadIds, roomId \in ReadRooms \cup RoomNames :
        (MapHas(activeUsers, c) => CanSuspend(MaxPending))
        /\ messageRead(c, messageId, roomId)
  \/ \E c \in Conns, recipientId \in Conns, text \in Texts :
        (MapHas(activeUsers, c) /\ MapHas(activeUsers, recipientId)
           => CanSuspend(MaxPending) /\ CanCreate(MaxMsgs))
        /\ privateMessage(c, recipientId, text)
  \/ \E c \in Conns : leaveRoom(c)
  \/ \E c \in Conns : disconnect(c)
  \/ Continue

Spec == Init /\ [][Next]_vars

\* Presence: three sockets join, leave and disconnect; the store stays empty
PresencePending == 1

PresenceUsernames(c) == IF c = "c1" THEN {"alice", "bob"} ELSE {"carol"}

PresenceRooms == {<<"general">>, <<"random">>}

NextPresence ==
  \/ \E c \in Conns : \E username \in PresenceUsernames(c), room \in PresenceRooms :
        CanSuspend(PresencePending) /\ joinRoom(c, username, room)
  \/ \E i \in 1..Len(tasks) : joinRoomFind(i)
  \/ \E i \in 1..Len(tasks) : joinRoomResume(i)
  \/ \E c \in Conns : leaveRoom(c)
  \/ \E c \in Conns : disconnect(c)

InitPresence == Init /\ build = "server.js"

SpecPresence == InitPresence /\ [][NextPresence]_vars

\* Chat: two sockets join, send a public message, leave and disconnect
ChatPending == 1

ChatMsgs == 1

ChatConns == {"c1", "c2"}

ChatUsername(c) == IF c = "c1" THEN "alice" ELSE "bob"

ChatRooms(c) == IF c = "c1" THEN {<<"general">>, <<"random">>} ELSE {<<"general">>}

NextChat ==
  \/ \E c \in ChatConns : \E room \in ChatRooms(c) :
        CanSuspend(ChatPending) /\ joinRoom(c, ChatUsername(c), room)
  \/ \E c \in ChatConns, text \in Texts :
        (MapHas(activeUsers, c) => CanSuspend(ChatPending) /\ CanCreate(ChatMsgs))
        /\ chatMessage(c, text)
  \/ \E i \in 1..Len(tasks) : joinRoomFind(i)
  \/ \E i \in 1..Len(tasks) : joinRoomResume(i)
  \/ \E i \in 1..Len(tasks) : chatMessageSave(i)
  \/ \E i \in 1..Len(tasks) : chatMessageResume(i)
  \/ \E c \in ChatConns : leaveRoom(c)
  \/ \E c \in ChatConns : disconnect(c)

InitChat == Init /\ build \in {"server.js", "part_000"}

SpecChat == InitChat /\ [][NextChat]_vars

\* Private: c1 and c2 exchange private messages while c3 joins rooms, one of
\* them named after the socket id of c2
PrivatePending == 1

PrivateMsgs == 2

PrivateUsername(c) == CASE c = "c1" -> "alice" [] c = "c2" -> "bob" [] OTHER -> "carol"

PrivateRooms(c) == IF c = "c3" THEN {<<"general">>, OwnRoom("c2")} ELSE {<<"general">>}

NextPrivate ==
  \/ \E c \in Conns : \E room \in PrivateRooms(c) :
        CanSuspend(PrivatePending) /\ joinRoom(c, PrivateUsername(c), room)
  \/ \E c \in {"c1", "c2"}, recipientId \in {"c1", "c2"}, text \in Texts :
        (MapHas(activeUsers, c) /\ MapHas(activeUsers, recipientId)
           => CanSuspend(PrivatePending) /\ CanCreate(PrivateMsgs))
        /\ privateMessage(c, recipientId, text)
  \/ \E i \in 1..Len(tasks) : joinRoomFind(i)
  \/ \E i \in 1..Len(tasks) : joinRoomResume(i)
  \/ \E i \in 1..Len(tasks) : privateMessageSave(i)
  \/ \E i \in 1..Len(tasks) : privateMessageResume(i)
  \/ \E c \in {"c3"} : leaveRoom(c)

SpecPrivate == InitChat /\ [][NextPrivate]_vars

\* History: c1 and c2 send public and private messages and join rooms, one of
\* them named as the room of their private messages
HistoryPending == 2

HistoryMsgs == 2

HistoryRooms(c) ==
  IF c = "c2" THEN {<<"general">>, privateRoomIdentifier("c1", "c2")} ELSE {<<"general">>}

NextHistory ==
  \/ \E c \in ChatConns : \E room \in HistoryRooms(c) :
        CanSuspend(HistoryPending) /\ joinRoom(c, ChatUsername(c), room)
  \/ \E c \in ChatConns, text \in Texts :
        /\ MapHas(activeUsers, c)
        /\ CanSuspend(HistoryPending) /\ CanCreate(HistoryMsgs)
        /\ chatMessage(c, text)
  \/ \E text \in Texts :
        /\ MapHas(activeUsers, "c1") /\ MapHas(activeUsers, "c2")
        /\ CanSuspend(HistoryPending) /\ CanCreate(HistoryMsgs)
        /\ privateMessage("c1", "c2", text)
  \/ \E i \in 1..Len(tasks) : joinRoomFind(i)
  \/ \E i \in 1..Len(tasks) : joinRoomResume(i)
  \/ \E i \in 1..Len(tasks) : chatMessageSave(i)
  \/ \E i \in 1..Len(tasks) : chatMessageResume(i)
  \/ \E i \in 1..Len(tasks) : privateMessageSave(i)
  \/ \E i \in 1..Len(tasks) : privateMessageResume(i)

SpecHistory == InitChat /\ [][NextHistory]_vars

\* Read: c1 sends a public message, c2 and c3 mark it as read, also twice and
\* while another messageRead is suspended; c3 leaves the room
ReadPending == 2

ReadMsgs == 1

Readers == {"c2", "c3"}

NextRead ==
  \/ \E c \in Conns :
        /\ ~MapHas(activeUsers, c)
        /\ CanSuspend(ReadPending)
        /\ joinRoom(c, PrivateUsername(c), <<"general">>)
  \/ \E text \in Texts :
        /\ MapHas(activeUsers, "c1")
        /\ CanSuspend(ReadPending) /\ CanCreate(ReadMsgs)
        /\ chatMessage("c1", text)
  \/ \E c \in Readers : \E messageId \in ReadIds, roomId \in ReadRooms :
        /\ MapHas(activeUsers, c)
        /\ CanSuspend(ReadPending)
        /\ messageRead(c, messageId, roomId)
  \/ \E i \in 1..Len(tasks) : joinRoomFind(i)
  \/ \E i \in 1..Len(tasks) : joinRoomResume(i)
  \/ \E i \in 1..Len(tasks) : chatMessageSave(i)
  \/ \E i \in 1..Len(tasks) : chatMessageResume(i)
  \/ \E i \in 1..Len(tasks) : messageReadFindOne(i)
  \/ \E i \in 1..Len(tasks) : messageReadFound(i)
  \/ \E i \in 1..Len(tasks) : messageReadSave(i)
  \/ \E i \in 1..Len(tasks) : messageReadResume(i)
  \/ \E c \in {"c3"} : leaveRoom(c)

SpecRead == Init /\ [][NextRead]_vars

\* ReadSeq: as Read, but a socket sends its next messageRead only after the
\* handler of its previous one has completed
ReadSeqPending == 2

ReadSeqMsgs == 1

Reading(c) == \E i \in 1..Len(tasks) : tasks[i].op = "messageRead" /\ tasks[i].conn = c

NextReadSeq ==
  \/ \E c \in Conns :
        /\ ~MapHas(activeUsers, c)
        /\ CanSuspend(ReadSeqPending)
        /\ joinRoom(c, PrivateUsername(c), <<"general">>)
  \/ \E text \in Texts :
        /\ MapHas(activeUsers, "c1")
        /\ CanSuspend(ReadSeqPending) /\ CanCreate(ReadSeqMsgs)
        /\ chatMessage("c1", text)
  \/ \E c \in Readers : \E messageId \in ReadIds, roomId \in ReadRooms :
        /\ MapHas(activeUsers, c)
        /\ ~Reading(c)
        /\ CanSuspend(ReadSeqPending)
        /\ messageRead(c, messageId, roomId)
  \/ \E i \in 1..Len(tasks) : joinRoomFind(i)
  \/ \E i \in 1..Len(tasks) : joinRoomResume(i)
  \/ \E i \in 1..Len(tasks) : chatMessageSave(i)
  \/ \E i \in 1..Len(tasks) : chatMessageResume(i)
  \/ \E i \in 1..Len(tasks) : messageReadFindOne(i)
  \/ \E i \in 1..Len(tasks) : messageReadFound(i)
  \/ \E i \in 1..Len(tasks) : messageReadSave(i)
  \/ \E i \in 1..Len(tasks) : messageReadResume(i)
  \/ \E c \in {"c3"} : leaveRoom(c)

SpecReadSeq == Init /\ [][NextReadSeq]_vars

\* Locate: c1 sends messages to two rooms, c2 marks them as read with the ids
\* and rooms of the messages it could have been sent
LocatePending == 1

LocateMsgs == 2

NextLocate ==
  \/ \E c \in ChatConns : \E room \in ChatRooms(c) :
        CanSuspend(LocatePending) /\ joinRoom(c, ChatUsername(c), room)
  \/ \E text \in Texts :
        /\ MapHas(activeUsers, "c1")
        /\ CanSuspend(LocatePending) /\ CanCreate(LocateMsgs)
        /\ chatMessage("c1", text)
  \/ \E messageId \in ReadIds, roomId \in ReadRooms :
        /\ MapHas(activeUsers, "c2")
        /\ CanSuspend(LocatePending)
        /\ messageRead("c2", messageId, roomId)
  \/ \E i \in 1..Len(tasks) : joinRoomFind(i)
  \/ \E i \in 1..Len(tasks) : joinRoomResume(i)
  \/ \E i \in 1..Len(tasks) : chatMessageSave(i)
  \/ \E i \in 1..Len(tasks) : chatMessageResume(i)
  \/ \E i \in 1..Len(tasks) : messageReadFindOne(i)
  \/ \E i \in 1..Len(tasks) : messageReadFound(i)
  \/ \E i \in 1..Len(tasks) : messageReadSave(i)
  \/ \E i \in 1..Len(tasks) : messageReadResume(i)

SpecLocate == Init /\ [][NextLocate]_vars

\* Rooms: three sockets move between two rooms, type, leave and disconnect; c1
\* sends a public message
RoomsPending == 1

RoomsMsgs == 1

NextRooms ==
  \/ \E c \in Conns : \E room \in PresenceRooms :
        CanSuspend(RoomsPending) /\ joinRoom(c, PrivateUsername(c), room)
  \/ \E text \in Texts :
        /\ MapHas(activeUsers, "c1")
        /\ CanSuspend(RoomsPending) /\ CanCreate(RoomsMsgs)
        /\ chatMessage("c1", text)
  \/ \E c \in Conns, ev \in {"typing", "stopTyping"} : typing(c, ev)
  \/ \E i \in 1..Len(tasks) : joinRoomFind(i)
  \/ \E i \in 1..Len(tasks) : joinRoomResume(i)
  \/ \E i \in 1..Len(tasks) : chatMessageSave(i)
  \/ \E i \in 1..Len(tasks) : chatMessageResume(i)
  \/ \E c \in Conns : leaveRoom(c)
  \/ \E c \in Conns : disconnect(c)

SpecRooms == InitPresence /\ [][NextRooms]_vars

\* Move: c1 moves between two rooms while its own handlers and those of c2 are
\* suspended; c2 stays in one room, types and leaves
MovePending == 2

MoveMsgs == 1

NextMove ==
  \/ \E c \in ChatConns : \E room \in ChatRooms(c) :
        CanSuspend(MovePending) /\ joinRoom(c, ChatUsername(c), room)
  \/ \E c \in ChatConns, text \in Texts :
        /\ MapHas(activeUsers, c)
        /\ CanSuspend(MovePending) /\ CanCreate(MoveMsgs)
        /\ chatMessage(c, text)
  \/ \E c \in ChatConns, ev \in {"typing", "stopTyping"} : typing(c, ev)
  \/ \E i \in 1..Len(tasks) : joinRoomFind(i)
  \/ \E i \in 1..Len(tasks) : joinRoomResume(i)
  \/ \E i \in 1..Len(tasks) : chatMessageSave(i)
  \/ \E i \in 1..Len(tasks) : chatMessageResume(i)
  \/ \E c \in {"c2"} : leaveRoom(c)

SpecMove == InitPresence /\ [][NextMove]_vars

\* Strangers: every socket sends private messages and messageRead, with and
\* without presence, to recipients that never joined, left or disconnected
StrangersPending == 1

StrangersMsgs == 1

NextStrangers ==
  \/ \E c \in Conns :
        CanSuspend(StrangersPending) /\ joinRoom(c, PrivateUsername(c), <<"general">>)
  \/ \E c \in Conns, recipientId \in Conns, text \in Texts :
        /\ (MapHas(activeUsers, c) /\ MapHas(activeUsers, recipientId))
             => (CanSuspend(StrangersPending) /\ CanCreate(StrangersMsgs))
        /\ privateMessage(c, recipientId, text)
  \/ \E c \in Conns : \E messageId \in ReadIds, roomId \in ReadRooms :
        /\ MapHas(activeUsers, c) => CanSuspend(StrangersPending)
        /\ messageRead(c, messageId, roomId)
  \/ \E i \in 1..Len(tasks) : joinRoomFind(i)
  \/ \E i \in 1..Len(tasks) : joinRoomResume(i)
  \/ \E i \in 1..Len(tasks) : privateMessageSave(i)
  \/ \E i \in 1..Len(tasks) : privateMessageResume(i)
  \/ \E i \in 1..Len(tasks) : messageReadFindOne(i)
  \/ \E i \in 1..Len(tasks) : messageReadFound(i)
  \/ \E i \in 1..Len(tasks) : messageReadSave(i)
  \/ \E i \in 1..Len(tasks) : messageReadResume(i)
  \/ \E c \in {"c2"} : leaveRoom(c)
  \/ \E c \in {"c3"} : disconnect(c)

SpecStrangers == InitChat /\ [][NextStrangers]_vars

\* Inputs: c1 joins with usernames and rooms that are empty, missing or the
\* name of the ChatBot, sends events without payload or with an empty one, and
\* chats; c2 joins as bob
InputsPending == 1

InputsMsgs == 1

InputUsernames == {"alice", "", "ChatBot", Undefined}

InputRooms == {<<"general">>, <<>>, <<Undefined>>}

NextInputs ==
  \/ \E username \in InputUsernames, room \in InputRooms :
        CanSuspend(InputsPending) /\ joinRoom("c1", username, room)
  \/ CanSuspend(InputsPending) /\ joinRoom("c2", "bob", <<"general">>)
  \/ \E text \in Texts :
        /\ MapHas(activeUsers, "c1")
        /\ CanSuspend(InputsPending) /\ CanCreate(InputsMsgs)
        /\ chatMessage("c1", text)
  \/ \E text \in Texts :
        /\ MapHas(activeUsers, "c1") /\ MapHas(activeUsers, "c2")
        /\ CanSuspend(InputsPending) /\ CanCreate(InputsMsgs)
        /\ privateMessage("c1", "c2", text)
  \/ \E c \in ChatConns : privateMessage(c, Undefined, Undefined)
  \/ \E c \in ChatConns, ev \in {"joinRoom", "messageRead", "privateMessage"} :
        missingPayload(c, ev)
  \/ \E i \in 1..Len(tasks) : joinRoomFind(i)
  \/ \E i \in 1..Len(tasks) : joinRoomResume(i)
  \/ \E i \in 1..Len(tasks) : chatMessageSave(i)
  \/ \E i \in 1..Len(tasks) : chatMessageResume(i)
  \/ \E i \in 1..Len(tasks) : privateMessageSave(i)
  \/ \E i \in 1..Len(tasks) : privateMessageResume(i)
  \/ \E i \in 1..Len(tasks) : validationFails(i)

SpecInputs == InitChat /\ [][NextInputs]_vars

\* Failures: c1 and c2 join, c1 chats, c2 sends a private message and a
\* messageRead; any store operation may be rejected
FailuresPending == 1

FailuresMsgs == 2

NextFailures ==
  \/ \E c \in ChatConns :
        /\ ~MapHas(activeUsers, c)
        /\ CanSuspend(FailuresPending)
        /\ joinRoom(c, ChatUsername(c), <<"general">>)
  \/ \E text \in Texts :
        /\ MapHas(activeUsers, "c1")
        /\ CanSuspend(FailuresPending) /\ CanCreate(FailuresMsgs)
        /\ chatMessage("c1", text)
  \/ \E text \in Texts :
        /\ MapHas(activeUsers, "c1") /\ MapHas(activeUsers, "c2")
        /\ CanSuspend(FailuresPending) /\ CanCreate(FailuresMsgs)
        /\ privateMessage("c2", "c1", text)
  \/ \E messageId \in ReadIds, roomId \in ReadRooms :
        /\ MapHas(activeUsers, "c2")
        /\ CanSuspend(FailuresPending)
        /\ messageRead("c2", messageId, roomId)
  \/ \E i \in 1..Len(tasks) : joinRoomFind(i)
  \/ \E i \in 1..Len(tasks) : joinRoomResume(i)
  \/ \E i \in 1..Len(tasks) : chatMessageSave(i)
  \/ \E i \in 1..Len(tasks) : chatMessageResume(i)
  \/ \E i \in 1..Len(tasks) : privateMessageSave(i)
  \/ \E i \in 1..Len(tasks) : privateMessageResume(i)
  \/ \E i \in 1..Len(tasks) : messageReadFindOne(i)
  \/ \E i \in 1..Len(tasks) : messageReadFound(i)
  \/ \E i \in 1..Len(tasks) : messageReadSave(i)
  \/ \E i \in 1..Len(tasks) : messageReadResume(i)
  \/ \E i \in 1..Len(tasks) : storeFails(i)

SpecFailures == InitChat /\ [][NextFailures]_vars

\* Start: from the moment the module is loaded; sockets connect and join while
\* Mongoose connects or fails to
StartPending == 2

NextStart ==
  \/ \E c \in Conns : connection(c)
  \/ connectDBConnected
  \/ connectDBError
  \/ \E c \in Conns :
        CanSuspend(StartPending) /\ joinRoom(c, PrivateUsername(c), <<"general">>)
  \/ \E i \in 1..Len(tasks) : joinRoomFind(i)
  \/ \E i \in 1..Len(tasks) : joinRoomResume(i)
  \/ \E c \in Conns, ev \in {"typing"} : typing(c, ev)

SpecStart == InitStart /\ [][NextStart]_vars

\* Cancel: c2 joins, chats, sends a private message and a messageRead and
\* disconnects while any of them is suspended; c1 stays
CancelPending == 1

CancelMsgs == 2

NextCancel ==
  \/ /\ ~MapHas(activeUsers, "c1")
     /\ CanSuspend(CancelPending)
     /\ joinRoom("c1", "alice", <<"general">>)
  \/ \E room \in PresenceRooms :
        /\ ~MapHas(activeUsers, "c2")
        /\ CanSuspend(CancelPending)
        /\ joinRoom("c2", "bob", room)
  \/ \E c \in ChatConns, text \in Texts :
        /\ MapHas(activeUsers, c)
        /\ CanSuspend(CancelPending) /\ CanCreate(CancelMsgs)
        /\ chatMessage(c, text)
  \/ \E text \in Texts :
        /\ MapHas(activeUsers, "c1") /\ MapHas(activeUsers, "c2")
        /\ CanSuspend(CancelPending) /\ CanCreate(CancelMsgs)
        /\ privateMessage("c2", "c1", text)
  \/ \E messageId \in ReadIds, roomId \in ReadRooms :
        /\ MapHas(activeUsers, "c2")
        /\ CanSuspend(CancelPending)
        /\ messageRead("c2", messageId, roomId)
  \/ \E i \in 1..Len(tasks) : joinRoomFind(i)
  \/ \E i \in 1..Len(tasks) : joinRoomResume(i)
  \/ \E i \in 1..Len(tasks) : chatMessageSave(i)
  \/ \E i \in 1..Len(tasks) : chatMessageResume(i)
  \/ \E i \in 1..Len(tasks) : privateMessageSave(i)
  \/ \E i \in 1..Len(tasks) : privateMessageResume(i)
  \/ \E i \in 1..Len(tasks) : messageReadFindOne(i)
  \/ \E i \in 1..Len(tasks) : messageReadFound(i)
  \/ \E i \in 1..Len(tasks) : messageReadSave(i)
  \/ \E i \in 1..Len(tasks) : messageReadResume(i)
  \/ \E c \in {"c2"} : disconnect(c)

SpecCancel == InitPresence /\ [][NextCancel]_vars

\* JoinRace: joins and public messages of two sockets interleave at every
\* await, and the deliveries are kept from the start
JoinRacePending == 2

JoinRaceMsgs == 2

InitJoinRace ==
  /\ build \in {"server.js", "part_000"}
  /\ connected = [c \in Conns |-> TRUE]
  /\ activeUsers = <<>>
  /\ rooms = [c \in Conns |-> {OwnRoom(c)}]
  /\ store = <<>>
  /\ nextId = 1
  /\ now = 1
  /\ tasks = <<>>
  /\ emitted = <<>>
  /\ last = Step("", "", NoUser, NoTask)
  /\ lastJoin = [c \in Conns |-> NoJoin]
  /\ doneReads = {}
  /\ process = "running"
  /\ db = "connected"
  /\ delivered = Tracked
  /\ client = NoClient

NextJoinRace ==
  \/ \E c \in ChatConns : \E room \in ChatRooms(c) :
        CanSuspend(JoinRacePending) /\ joinRoom(c, ChatUsername(c), room)
  \/ \E c \in ChatConns, text \in Texts :
        /\ MapHas(activeUsers, c)
        /\ CanSuspend(JoinRacePending) /\ CanCreate(JoinRaceMsgs)
        /\ chatMessage(c, text)
  \/ \E i \in 1..Len(tasks) : joinRoomFind(i)
  \/ \E i \in 1..Len(tasks) : joinRoomResume(i)
  \/ \E i \in 1..Len(tasks) : chatMessageSave(i)
  \/ \E i \in 1..Len(tasks) : chatMessageResume(i)
  \/ \E c \in {"c2"} : leaveRoom(c)

SpecJoinRace == InitJoinRace /\ [][NextJoinRace]_vars

\* Order: the public messages of two sockets of one room overlap across their
\* inserts, and the live deliveries are kept from the start
OrderPending == 2

OrderMsgs == 2

InitOrder ==
  /\ build \in {"server.js", "part_000"}
  /\ connected = [c \in Conns |-> TRUE]
  /\ activeUsers = <<>>
  /\ rooms = [c \in Conns |-> {OwnRoom(c)}]
  /\ store = <<>>
  /\ nextId = 1
  /\ now = 1
  /\ tasks = <<>>
  /\ emitted = <<>>
  /\ last = Step("", "", NoUser, NoTask)
  /\ lastJoin = [c \in Conns |-> NoJoin]
  /\ doneReads = {}
  /\ process = "running"
  /\ db = "connected"
  /\ delivered = TrackedLive
  /\ client = NoClient

NextOrder ==
  \/ \E c \in ChatConns :
        /\ ~MapHas(activeUsers, c)
        /\ CanSuspend(OrderPending)
        /\ joinRoom(c, ChatUsername(c), <<"general">>)
  \/ \E c \in ChatConns, text \in Texts :
        /\ MapHas(activeUsers, c)
        /\ CanSuspend(OrderPending) /\ CanCreate(OrderMsgs)
        /\ chatMessage(c, text)
  \/ \E i \in 1..Len(tasks) : joinRoomFind(i)
  \/ \E i \in 1..Len(tasks) : joinRoomResume(i)
  \/ \E i \in 1..Len(tasks) : chatMessageSave(i)
  \/ \E i \in 1..Len(tasks) : chatMessageResume(i)

SpecOrder == InitOrder /\ [][NextOrder]_vars

\* Roster: three sockets join, move, leave and disconnect, c3 also in the room
\* named after the socket id of c2, and the last roster of each socket is kept
RosterPending == 2

InitRoster ==
  /\ build = "server.js"
  /\ connected = [c \in Conns |-> TRUE]
  /\ activeUsers = <<>>
  /\ rooms = [c \in Conns |-> {OwnRoom(c)}]
  /\ store = <<>>
  /\ nextId = 1
  /\ now = 1
  /\ tasks = <<>>
  /\ emitted = <<>>
  /\ last = Step("", "", NoUser, NoTask)
  /\ lastJoin = [c \in Conns |-> NoJoin]
  /\ doneReads = {}
  /\ process = "running"
  /\ db = "connected"
  /\ delivered = TrackedRoster
  /\ client = NoClient

NextRoster ==
  \/ \E c \in Conns : \E room \in PrivateRooms(c) :
        CanSuspend(RosterPending) /\ joinRoom(c, PrivateUsername(c), room)
  \/ \E i \in 1..Len(tasks) : joinRoomFind(i)
  \/ \E i \in 1..Len(tasks) : joinRoomResume(i)
  \/ \E c \in {"c1", "c3"} : leaveRoom(c)
  \/ \E c \in {"c1"} : disconnect(c)

SpecRoster == InitRoster /\ [][NextRoster]_vars

\* Client: one browser client, from the mount of App on, with the socket
\* opening, closing and reopening under it
NextClient ==
  \/ mount
  \/ onConnect
  \/ onDisconnect
  \/ render
  \/ \E value \in ClientUsernames : setUsername(value)
  \/ \E value \in ClientRooms : setRoom(value)
  \/ handleJoinRoom
  \/ handleLogout

InitClient == InitPresence

SpecClient == InitClient /\ [][NextClient]_vars

\* the same client when a socket that is opening does open and a pending
\* render is done
SpecClientLive ==
  InitClient /\ [][NextClient]_vars /\ WF_vars(mount) /\ WF_vars(onConnect) /\ WF_vars(render)

\* ------------------------------------------------------------- claims
RecordsOf(c) == {i \in 1..Len(activeUsers) : activeUsers[i].id = c}

\* C1: the presence table holds at most one record per socket, and while a socket
\* is present its record is the username and room of its latest joinRoom
C1_OneRecordOfLatestJoin ==
  \A c \in Conns :
    /\ Cardinality(RecordsOf(c)) <= 1
    /\ lastJoin[c] # NoJoin =>
         \E i \in RecordsOf(c) :
           /\ activeUsers[i].username = lastJoin[c].username
           /\ activeUsers[i].room = lastJoin[c].room

\* a socket that was present has joined again with another username and room
C1_Witness ==
  /\ last.op = "joinRoom"
  /\ last.user # NoUser
  /\ last.user.username # lastJoin[last.conn].username
  /\ last.user.room # lastJoin[last.conn].room
  /\ Len(activeUsers) > 1

\* C2: a socket whose disconnect handler has run has no presence record, in that
\* state and in every later one, however its joinRoom handlers interleave with it
C2_NoPresenceAfterDisconnect ==
  \A c \in Conns : ~connected[c] => ~MapHas(activeUsers, c)

\* a joinRoom handler has resumed after its socket disconnected
C2_Witness ==
  /\ last.op = "joinRoom.resume"
  /\ ~connected[last.conn]

\* the sockets whose presence record has the room
PresentIn(users, room) == {c \in Conns : MapHas(users, c) /\ MapGet(users, c).room = room}

\* the sockets that are in the socket.io room
Members(rm, room) == {c \in Conns : room \in rm[c]}

IsNotice(data) == data.username = "ChatBot"

\* C3: a chatMessage of a socket without presence writes nothing to the store,
\* leaves the presence table as it is and delivers one ChatBot message, to that
\* socket and to no other
C3_ChatWithoutPresence ==
  [][(last'.op = "chatMessage" /\ ~MapHas(activeUsers, last'.conn)) =>
       /\ store' = store
       /\ tasks' = tasks
       /\ activeUsers' = activeUsers
       /\ Len(emitted') = 1
       /\ emitted'[1].ev = "message"
       /\ IsNotice(emitted'[1].data)
       /\ emitted'[1].to = {last'.conn}]_vars

\* a socket without presence has sent a chatMessage while others were present and
\* a message was stored
C3_Witness ==
  /\ last.op = "chatMessage"
  /\ last.user = NoUser
  /\ Len(emitted) = 1
  /\ Len(activeUsers) > 0
  /\ Len(store) > 0

\* C4: a chatMessage(text) of a socket X present as {u, r} inserts one message
\* {u, text, r, isPrivate false, readBy [X]} and then delivers it as one message
\* event to every socket in room r at dispatch, X included if it is still in r
C4_ChatPersistedThenBroadcast ==
  [][/\ (last'.op = "chatMessage" /\ MapHas(activeUsers, last'.conn)) =>
          /\ store' = store
          /\ emitted' = <<>>
          /\ Len(tasks') = Len(tasks) + 1
          /\ tasks'[Len(tasks')].user = MapGet(activeUsers, last'.conn)
          /\ tasks'[Len(tasks')].text = last'.task.text
     /\ last'.op = "chatMessage.save" =>
          /\ Len(store') = Len(store) + 1
          /\ SubSeq(store', 1, Len(store)) = store
          /\ emitted' = <<>>
          /\ LET m == store'[Len(store')]
                 t == last'.task
             IN /\ m.username = t.user.username
                /\ m.text = t.text
                /\ m.room = t.user.room
                /\ m.isPrivate = FALSE
                /\ m.readBy = <<t.conn>>
                /\ \A i \in 1..Len(store) : store[i]._id # m._id
     /\ last'.op = "chatMessage.resume" =>
          /\ store' = store
          /\ Len(emitted') = 1
          /\ LET e == emitted'[1]
                 t == last'.task
             IN /\ e.ev = "message"
                /\ e.to = Members(rooms, t.user.room)
                /\ PresentIn(activeUsers, t.user.room) \subseteq e.to
                /\ e.data.username = t.user.username
                /\ e.data.text = t.text
                /\ e.data.room = t.user.room
                /\ e.data.isPrivate = FALSE
                /\ e.data.readBy = <<t.conn>>
                /\ \E i \in 1..Len(store) : toObject(store[i]) = e.data]_vars

\* a chatMessage has been broadcast to its sender and another socket of the room
C4_Witness ==
  /\ last.op = "chatMessage.resume"
  /\ Len(emitted) = 1
  /\ last.conn \in emitted[1].to
  /\ Cardinality(emitted[1].to) = 2
  /\ Len(store) = 1

\* C5: a private message of X to Y, both present, is delivered to Y, echoed to X
\* and delivered to no other socket, whatever rooms the other sockets joined
C5_PrivateOnlyToParticipants ==
  last.op = "privateMessage.resume" =>
    /\ Len(emitted) = 2
    /\ emitted[1].to = {last.task.recipientId}
    /\ emitted[2].to = {last.conn}

\* C6: the stored room of a private message is the same in both directions
\* between two sockets
C6_PrivateRoomSymmetric ==
  \A i, j \in 1..Len(store) :
    (/\ store[i].isPrivate /\ store[j].isPrivate
     /\ store[i].senderId = store[j].recipientId
     /\ store[i].recipientId = store[j].senderId) => store[i].room = store[j].room

\* the roomMessages events of the last step
Batches == {i \in 1..Len(emitted) : emitted[i].ev = "roomMessages"}

\* C7: a joinRoom produces one roomMessages event, for the joining socket only;
\* its messages are stored messages of the joined room, none private, in
\* non-decreasing order of timestamp
C7_HistoryBatch ==
  /\ last.op = "joinRoom.resume" => Cardinality(Batches) = 1
  /\ \A b \in Batches :
       LET messages == emitted[b].data
       IN /\ last.op = "joinRoom.resume"
          /\ emitted[b].to \subseteq {last.conn}
          /\ connected[last.conn] => emitted[b].to = {last.conn}
          /\ \A k \in 1..Len(messages) :
               /\ \E i \in 1..Len(store) : store[i] = messages[k]
               /\ messages[k].room = last.user.room
               /\ messages[k].isPrivate = FALSE
          /\ \A k \in 1..(Len(messages) - 1) :
               messages[k].timestamp <= messages[k + 1].timestamp

\* a batch of two messages in the order of their timestamps, which the store
\* holds in the other order
C7_Witness ==
  /\ last.op = "joinRoom.resume"
  /\ \E b \in Batches :
       /\ Len(emitted[b].data) = 2
       /\ emitted[b].data[1].timestamp < emitted[b].data[2].timestamp
       /\ emitted[b].to = {last.conn}
  /\ Len(store) = 2
  /\ store[1].timestamp > store[2].timestamp

Count(seq, x) == Cardinality({i \in 1..Len(seq) : seq[i] = x})

NoDup(seq) == \A i, j \in 1..Len(seq) : seq[i] = seq[j] => i = j

ReadKey(t) == <<t.conn, t.messageId, t.roomId>>

\* the stored messages a client names with (messageId, roomId)
Named(st, messageId, roomId) ==
  {i \in 1..Len(st) : toObject(st[i]).id = messageId /\ st[i].room = roomId}

\* C8: when a present socket sends a messageRead that it has sent before and
\* whose handler has completed, the readBy of the message holds the socket once,
\* and the second handler writes nothing and emits nothing
C8_SequentialReadIdempotent ==
  [][/\ (/\ last'.op = "messageRead"
          /\ last'.user # NoUser
          /\ <<last'.conn, last'.task.messageId, last'.task.roomId>> \in doneReads) =>
            \A i \in Named(store, last'.task.messageId, last'.task.roomId) :
              Count(store[i].readBy, last'.conn) = 1
     /\ (/\ last'.op \in {"messageRead.findOne", "messageRead.found"}
          /\ ReadKey(last'.task) \in doneReads) =>
            /\ store' = store
            /\ emitted' = <<>>
            /\ last'.op = "messageRead.found" => Len(tasks') < Len(tasks)
     /\ last'.op \in {"messageRead.save", "messageRead.resume"} =>
            ReadKey(last'.task) \notin doneReads]_vars

\* C9: the readBy of a stored message never holds an entry twice and never loses
\* an entry, also when messageRead handlers for the message interleave
C9_ReadByIsGrowingSet ==
  [][/\ Len(store') >= Len(store)
     /\ \A i \in 1..Len(store') : NoDup(store'[i].readBy)
     /\ \A i \in 1..Len(store) :
          /\ store'[i]._id = store[i]._id
          /\ Range(store[i].readBy) \subseteq Range(store'[i].readBy)]_vars

ReadSteps == {"messageRead", "messageRead.findOne", "messageRead.found",
              "messageRead.save", "messageRead.resume"}

\* C11: a messageRead changes at most the stored message that has the id
\* messageId, as clients see it, and the room roomId; the other messages and the
\* presence table stay as they are; without such a message nothing is written
\* or emitted; the message of a chatMessage is found by the id it was sent with
C11_ReadLocatesById ==
  [][last'.op \in ReadSteps =>
       LET t == last'.task
           named == Named(store, t.messageId, t.roomId)
       IN /\ activeUsers' = activeUsers
          /\ Len(store') = Len(store)
          /\ \A i \in 1..Len(store) : i \notin named => store'[i] = store[i]
          /\ named = {} => store' = store /\ emitted' = <<>>
          /\ last'.op = "messageRead.found" =>
               IF named = {} THEN t.doc = NoDoc
               ELSE \E i \in named : store[i]._id = t.doc._id]_vars

\* the presence records of the sockets other than c are the same in both tables
SameOthers(users1, users2, c) ==
  \A x \in Conns \ {c} : MapGet(users1, x) = MapGet(users2, x)

\* the sockets listed in a roster
Listed(roster) == {roster[i].id : i \in 1..Len(roster)}

\* C12: the disconnect of a socket X present in room r removes its presence;
\* when another presence of r remains, the remaining sockets of r get the
\* notice that X has left and the roster of r; when none remains, nothing is
\* emitted
C12_DisconnectNotifiesNonEmptyRoom ==
  [][(last'.op = "disconnect" /\ last'.user # NoUser) =>
       LET c == last'.conn
           r == last'.user.room
           remaining == PresentIn(activeUsers', r)
       IN /\ ~MapHas(activeUsers', c)
          /\ SameOthers(activeUsers, activeUsers', c)
          /\ store' = store
          /\ IF remaining = {}
             THEN emitted' = <<>>
             ELSE /\ Len(emitted') = 2
                  /\ emitted'[1].ev = "message"
                  /\ emitted'[1].data = LeftNotice(last'.user.username)
                  /\ emitted'[1].to = remaining
                  /\ emitted'[2].ev = "roomUsers"
                  /\ emitted'[2].to = remaining
                  /\ Listed(emitted'[2].data) = remaining
                  /\ \A i \in 1..Len(emitted'[2].data) : emitted'[2].data[i].room = r]_vars

\* a socket has disconnected from a room where two others remain
C12_Witness ==
  /\ last.op = "disconnect"
  /\ last.user # NoUser
  /\ Len(emitted) = 2
  /\ Cardinality(emitted[2].to) = 2

\* a socket that was alone in its room has disconnected while another room is
\* not empty
C12_WitnessAlone ==
  /\ last.op = "disconnect"
  /\ last.user # NoUser
  /\ emitted = <<>>
  /\ Len(activeUsers) > 0

\* C13: a disconnect or a leaveRoom of a socket without presence emits nothing
\* and leaves the presence table and the store as they are
C13_LeaveWithoutPresence ==
  [][(last'.op \in {"disconnect", "leaveRoom"} /\ ~MapHas(activeUsers, last'.conn)) =>
       /\ emitted' = <<>>
       /\ activeUsers' = activeUsers
       /\ store' = store
       /\ tasks' = tasks]_vars

\* a socket without presence has disconnected while another socket is present
\* and a message is stored
C13_Witness ==
  /\ last.op = "disconnect"
  /\ last.user = NoUser
  /\ emitted = <<>>
  /\ Len(activeUsers) > 0
  /\ Len(store) > 0

\* C14: a leaveRoom of a socket X present in room r removes its presence, sends
\* the notice that X has left to the other sockets of r and not to X, sends the
\* roster of r, without X, to the sockets that remain in r, and leaves X
\* connected; a joinRoom of a connected socket creates its presence
C14_LeaveRoomNotifiesRoom ==
  [][/\ (last'.op = "leaveRoom" /\ MapHas(activeUsers, last'.conn)) =>
          LET c == last'.conn
              r == MapGet(activeUsers, c).room
              remaining == PresentIn(activeUsers', r)
          IN /\ ~MapHas(activeUsers', c)
             /\ SameOthers(activeUsers, activeUsers', c)
             /\ connected'[c]
             /\ store' = store
             /\ Len(emitted') = 2
             /\ emitted'[1].ev = "message"
             /\ emitted'[1].data = LeftNotice(MapGet(activeUsers, c).username)
             /\ emitted'[1].to = Members(rooms, r) \ {c}
             /\ emitted'[1].to = remaining
             /\ emitted'[2].ev = "roomUsers"
             /\ emitted'[2].to = remaining
             /\ c \notin emitted'[2].to
             /\ Listed(emitted'[2].data) = remaining
             /\ c \notin Listed(emitted'[2].data)
     /\ last'.op = "joinRoom" =>
          /\ connected[last'.conn]
          /\ MapHas(activeUsers', last'.conn)]_vars

\* a socket has left a room where two others remain
C14_Witness ==
  /\ last.op = "leaveRoom"
  /\ last.user # NoUser
  /\ connected[last.conn]
  /\ Len(emitted) = 2
  /\ Cardinality(emitted[1].to) = 2
  /\ Cardinality(Listed(emitted[2].data)) = 2

\* C15: when a socket X present in room r1 sends a joinRoom for another room r2,
\* the sockets that remain in r1 are sent the message that X has left
C15_RejoinNotifiesOldRoom ==
  (/\ last.op = "joinRoom"
   /\ last.user # NoUser
   /\ last.user.room # lastJoin[last.conn].room
   /\ PresentIn(activeUsers, last.user.room) # {}) =>
     \E i \in 1..Len(emitted) :
       /\ emitted[i].ev = "message"
       /\ emitted[i].data = LeftNotice(last.user.username)
       /\ PresentIn(activeUsers, last.user.room) \subseteq emitted[i].to

\* the emissions of a step that are addressed to a room, by their position; the
\* room is the room of the user of the step
RoomScoped(op) ==
  CASE op = "joinRoom" -> {1}
    [] op = "joinRoom.resume" -> {2, 3}
    [] op = "chatMessage.resume" -> {1}
    [] op \in {"typing", "stopTyping"} -> {1}
    [] op \in {"leaveRoom", "disconnect"} -> {1, 2}
    [] OTHER -> {}

\* C16: when a socket X present in room r1 joins another room, the roster sent
\* to r1 does not list X and is not sent to X, and every event addressed to a
\* room reaches only sockets whose presence is in that room: none reaches X for
\* r1 once it has moved
C16_NoEventsOfLeftRoom ==
  /\ (last.op = "joinRoom" /\ last.user # NoUser) =>
       /\ Len(emitted) = 1
       /\ emitted[1].ev = "roomUsers"
       /\ last.conn \notin Listed(emitted[1].data)
       /\ last.conn \notin emitted[1].to
  /\ \A i \in RoomScoped(last.op) \cap (1..Len(emitted)) :
       \A x \in emitted[i].to :
         /\ MapHas(activeUsers, x)
         /\ MapGet(activeUsers, x).room = last.user.room

\* the public message that a socket sent in one room is delivered there after the
\* socket has moved to another room, and not to that socket
C16_Witness ==
  /\ last.op = "chatMessage.resume"
  /\ MapHas(activeUsers, last.conn)
  /\ MapGet(activeUsers, last.conn).room # last.user.room
  /\ emitted[1].to # {}
  /\ last.conn \notin emitted[1].to

\* C17: when a joinRoom of socket X resumes while X is still present in the
\* room, the welcome and the history go to X only, the notice that X has joined
\* goes to the other sockets of the room and not to X, and the roster goes to
\* every socket of the room, X included, and lists X
C17_JoinDeliveries ==
  (/\ last.op = "joinRoom.resume"
   /\ connected[last.conn]
   /\ MapHas(activeUsers, last.conn)
   /\ MapGet(activeUsers, last.conn).room = last.user.room) =>
     LET X == last.conn
         room == last.user.room
         present == PresentIn(activeUsers, room)
     IN /\ Len(emitted) = 4
        /\ emitted[1].ev = "message"
        /\ emitted[1].data = WelcomeNotice(room, last.user.username)
        /\ emitted[1].to = {X}
        /\ emitted[2].ev = "message"
        /\ emitted[2].data = JoinedNotice(last.user.username)
        /\ emitted[2].to = present \ {X}
        /\ emitted[3].ev = "roomUsers"
        /\ emitted[3].to = present
        /\ X \in emitted[3].to
        /\ Listed(emitted[3].data) = present
        /\ X \in Listed(emitted[3].data)
        /\ emitted[4].ev = "roomMessages"
        /\ emitted[4].to = {X}

\* a joinRoom has resumed in a room of three sockets with a stored message
C17_Witness ==
  /\ last.op = "joinRoom.resume"
  /\ Len(emitted) = 4
  /\ Cardinality(emitted[2].to) = 2
  /\ Cardinality(emitted[3].to) = 3
  /\ last.conn \in emitted[3].to
  /\ Len(emitted[4].data) = 1

\* C18: a typing or stopTyping of a socket present as {u, r} delivers u to the
\* other sockets of r and not to the sender; of a socket without presence it
\* emits nothing; the presence table, the store and every other part of the
\* server state stay as they are
C18_TypingRelay ==
  [][last'.op \in {"typing", "stopTyping"} =>
       LET c == last'.conn
       IN /\ UNCHANGED <<build, connected, activeUsers, rooms, store, nextId, now, tasks>>
          /\ IF MapHas(activeUsers, c)
             THEN /\ Len(emitted') = 1
                  /\ emitted'[1].ev = last'.op
                  /\ emitted'[1].data = MapGet(activeUsers, c).username
                  /\ emitted'[1].to = PresentIn(activeUsers, MapGet(activeUsers, c).room) \ {c}
                  /\ c \notin emitted'[1].to
             ELSE emitted' = <<>>]_vars

\* a typing event has been relayed to the two other sockets of the room
C18_Witness ==
  /\ last.op = "typing"
  /\ Len(emitted) = 1
  /\ Cardinality(emitted[1].to) = 2
  /\ last.conn \notin emitted[1].to

\* a socket without presence has sent stopTyping while others are present
C18_WitnessDropped ==
  /\ last.op = "stopTyping"
  /\ last.user = NoUser
  /\ emitted = <<>>
  /\ Len(activeUsers) > 1

\* C19: a privateMessage of a present socket to a recipientId without presence
\* writes nothing to the store and delivers one ChatBot message, to the sender
\* and to no other socket
C19_PrivateToUnknownRecipient ==
  [][(/\ last'.op = "privateMessage"
      /\ MapHas(activeUsers, last'.conn)
      /\ ~MapHas(activeUsers, last'.task.recipientId)) =>
        /\ store' = store
        /\ tasks' = tasks
        /\ activeUsers' = activeUsers
        /\ Len(emitted') = 1
        /\ emitted'[1].ev = "message"
        /\ IsNotice(emitted'[1].data)
        /\ emitted'[1].to = {last'.conn}]_vars

\* a present socket has sent a private message to a socket that disconnected,
\* while a message is stored
C19_Witness ==
  /\ last.op = "privateMessage"
  /\ last.user # NoUser
  /\ ~connected[last.task.recipientId]
  /\ Len(emitted) = 1
  /\ emitted[1].to = {last.conn}
  /\ Len(store) > 0

\* C20: a privateMessage or a messageRead of a socket without presence leaves
\* the store and the presence table as they are and delivers a ChatBot message
\* to that socket only
C20_NoPresenceGetsNotice ==
  [][(last'.op \in {"privateMessage", "messageRead"} /\ ~MapHas(activeUsers, last'.conn)) =>
       /\ store' = store
       /\ activeUsers' = activeUsers
       /\ Len(emitted') = 1
       /\ emitted'[1].ev = "message"
       /\ IsNotice(emitted'[1].data)
       /\ emitted'[1].to = {last'.conn}]_vars

\* C21: a joinRoom with an empty username or an empty room creates and changes
\* no presence record, joins no room, emits nothing and starts no history query
C21_EmptyJoinRejected ==
  [][(/\ last'.op = "joinRoom"
      /\ \/ lastJoin'[last'.conn].username = ""
         \/ lastJoin'[last'.conn].room = <<>>) =>
        /\ activeUsers' = activeUsers
        /\ rooms' = rooms
        /\ tasks' = tasks
        /\ emitted' = <<>>]_vars

\* C22: when a store operation of a joinRoom, chatMessage, privateMessage or
\* messageRead handler fails, only that handler ends: the process keeps running,
\* the sockets stay connected and present, and the other handlers stay suspended
C22_StoreFailureConfined ==
  [][last'.op = "storeFails" =>
       /\ process' = "running"
       /\ connected' = connected
       /\ activeUsers' = activeUsers
       /\ store' = store
       /\ Len(tasks') = Len(tasks) - 1]_vars

\* the last step handled a joinRoom, messageRead or privateMessage without
\* payload, or a joinRoom or privateMessage whose payload lacks its fields
Malformed(step, join) ==
  \/ step.op = "missingPayload"
  \/ step.op = "joinRoom" /\ (join.username = Undefined \/ join.room = <<Undefined>>)
  \/ step.op = "privateMessage" /\ step.task.recipientId = Undefined

\* C23: a joinRoom, privateMessage or messageRead without payload or without a
\* required field is dropped: nothing is emitted, the presence table and the
\* store stay as they are, and the process keeps running
C23_MalformedDropped ==
  [][Malformed(last', lastJoin'[last'.conn]) =>
       /\ emitted' = <<>>
       /\ activeUsers' = activeUsers
       /\ store' = store
       /\ process' = "running"
       /\ connected' = connected]_vars

\* C24: while the store connection has not succeeded no socket is connected
\* and no event is handled, and a process that ended because the connection
\* failed has never accepted a socket
C24_NoConnectionBeforeStore ==
  [][/\ db # "connected" => last'.op \in {"connectDB.connected", "connectDB.error"}
     /\ last'.op = "connectDB.error" =>
          /\ process' = "exit(1)"
          /\ \A c \in Conns : ~connected[c]]_vars

\* C25: no stored message has the username ChatBot, and no message event that
\* carries a stored message has it: the name marks the notices, which are not
\* stored
C25_ChatBotReserved ==
  /\ \A i \in 1..Len(store) : ~IsNotice(store[i])
  /\ \A i \in 1..Len(emitted) :
       (emitted[i].ev = "message" /\ IsNotice(emitted[i].data)) =>
         "_id" \notin DOMAIN emitted[i].data

C27_RosterIsSnapshot ==
  \A i \in 1..Len(emitted) :
    emitted[i].ev = "roomUsers" =>
      Listed(emitted[i].data) = PresentIn(activeUsers, last.user.room)

\* C28: every event a step emits to a room goes only to sockets whose presence
\* record has that room when the step emits, whatever name the client chose
\* for the room
C28_RoomIsolation ==
  /\ \A i \in RoomScoped(last.op) \cap (1..Len(emitted)) :
       emitted[i].to \subseteq PresentIn(activeUsers, last.user.room)
  /\ last.op = "messageRead.resume" =>
       \A i \in 1..Len(emitted) :
         emitted[i].to \subseteq PresentIn(activeUsers, last.task.roomId)

\* C29: when the recipient Y of a private message of X has sent messageRead with
\* the id and the stored room of the message and the update has been saved,
\* X, still connected and present, is delivered a messageUpdated whose readBy
\* contains Y
C29_ReadReceiptReachesSender ==
  (/\ last.op = "messageRead.resume"
   /\ last.task.doc.isPrivate
   /\ last.conn = last.task.doc.recipientId
   /\ last.task.roomId = last.task.doc.room
   /\ connected[last.task.doc.senderId]
   /\ MapHas(activeUsers, last.task.doc.senderId)) =>
     \E i \in 1..Len(emitted) :
       /\ emitted[i].ev = "messageUpdated"
       /\ last.task.doc.senderId \in emitted[i].to
       /\ last.conn \in Range(emitted[i].data.readBy)

\* the handlers of an operation that are suspended
Pending(op) == {i \in 1..Len(tasks) : tasks[i].op = op}

\* C30: once the joinRoom handlers of a socket c present in room r and the
\* chatMessage handler of a stored public message of r have all finished, c has
\* been delivered the message, in a history batch or as a live message
C30_NoLossAcrossJoin ==
  \A c \in Conns :
    (/\ connected[c]
     /\ MapHas(activeUsers, c)
     /\ \A j \in Pending("joinRoom") : tasks[j].conn # c) =>
       \A i \in 1..Len(store) :
         (/\ store[i].room = MapGet(activeUsers, c).room
          /\ ~store[i].isPrivate
          /\ \A j \in Pending("chatMessage") : tasks[j].doc._id # store[i]._id) =>
            <<c, store[i]._id>> \in delivered.set

\* a message stored after the history query of a join and before its end: the
\* history batch of the joining socket is empty and the message has reached it
C30_Witness ==
  /\ last.op = "joinRoom.resume"
  /\ tasks = <<>>
  /\ connected[last.conn]
  /\ MapHas(activeUsers, last.conn)
  /\ emitted[4].data = <<>>
  /\ \E i \in 1..Len(store) :
       /\ store[i].room = MapGet(activeUsers, last.conn).room
       /\ store[i].senderId # last.conn
       /\ <<last.conn, store[i]._id>> \in delivered.set

\* a message stored before the join has reached the joining socket in its
\* history batch
C30_WitnessHistory ==
  /\ last.op = "joinRoom.resume"
  /\ tasks = <<>>
  /\ MapHas(activeUsers, last.conn)
  /\ MapGet(activeUsers, last.conn).room = last.user.room
  /\ Len(emitted[4].data) = 2

\* C31: the live broadcast of a public message reaches no socket that has
\* already been delivered the message in the history batch of its join
C31_NoDuplicateAcrossJoin ==
  [][last'.op = "chatMessage.resume" =>
       \A c \in emitted'[1].to : <<c, last'.task.doc._id>> \notin delivered.set]_vars

\* the stored document of a message
Stored(id) == store[CHOOSE i \in 1..Len(store) : store[i]._id = id]

\* C32: a socket that is delivered a public message live has been delivered
\* live no message of the same room with a later stored timestamp
C32_LiveOrderIsTimestampOrder ==
  [][last'.op = "chatMessage.resume" =>
       \A c \in emitted'[1].to :
         \A d \in delivered.live :
           (/\ d[1] = c
            /\ Stored(d[2]).room = last'.task.doc.room
            /\ ~Stored(d[2]).isPrivate) =>
              Stored(d[2]).timestamp <= last'.task.doc.timestamp]_vars

\* C33: when the last suspended joinRoom of a present socket has finished, the
\* welcome and the history batch it has just delivered to the socket are those
\* of the room of the socket's presence record
C33_LastJoinWins ==
  (/\ last.op = "joinRoom.resume"
   /\ connected[last.conn]
   /\ MapHas(activeUsers, last.conn)
   /\ \A j \in Pending("joinRoom") : tasks[j].conn # last.conn) =>
     LET user == MapGet(activeUsers, last.conn)
     IN /\ emitted[1].data = WelcomeNotice(user.room, user.username)
        /\ emitted[4].ev = "roomMessages"
        /\ last.user.room = user.room

\* C34: when no handler is suspended, the last roster delivered to a present
\* socket whose room has had a join, a leave or a disconnect since its own join
\* finished lists exactly the sockets whose presence record has that room
C34_RosterConverges ==
  tasks = <<>> =>
    \A c \in Conns :
      (connected[c] /\ MapHas(activeUsers, c) /\ c \in delivered.since) =>
        Listed(delivered.roster[c]) = PresentIn(activeUsers, MapGet(activeUsers, c).room)

\* C35: a messageRead adds its socket to the readBy of a stored public message,
\* and broadcasts messageUpdated, only when the presence record of the socket
\* had the room of the message when the messageRead was issued
C35_ReadOnlyByRoomMembers ==
  [][(/\ last'.op \in {"messageRead.save", "messageRead.resume"}
      /\ ~last'.task.doc.isPrivate) =>
        last'.user.room = last'.task.doc.room]_vars

\* C36: the client emits joinRoom only with a username and a room that are not
\* empty and while its socket is connected, and a handleJoinRoom that emits
\* nothing leaves isLoggedIn false
C36_ClientJoinGuard ==
  /\ client.emit.ev = "joinRoom" =>
       /\ client.emit.username # ""
       /\ client.emit.room # ""
       /\ client.emit.connected
  /\ (client.op = "handleJoinRoom" /\ client.emit = NoEmit) => ~client.isLoggedIn

\* C37: after a logout the socket of the client becomes connected again
C37_LogoutThenConnectedAgain ==
  (client.loggedOut /\ ~client.isLoggedIn) ~> (client.socket = "connected")

====
